---- MODULE Spec2Model ----
(***************************************************************************)
(* Model of the bettergpt editor extension:                                *)
(*   - LangPercent (script-range table, inRange, calcPercent, getLangs),   *)
(*   - BetterGPTExtension (translate / grammar commands, the pending       *)
(*     remote completion request, clipboard and comment threads).          *)
(*                                                                         *)
(* A text is a JavaScript string: a sequence of UTF-16 code units.         *)
(* The table keys are non-ASCII in the source; they are written here as    *)
(*   "zh-Hant" for the key U+7E41 U+9AD4 U+4E2D U+6587 (Traditional),      *)
(*   "zh-Hans" for the key U+7B80 U+4F53 U+4E2D U+6587 (Simplified),       *)
(*   "ja"      for the key U+65E5 U+672C U+8A9E        (Japanese).         *)
(***************************************************************************)
EXTENDS Integers, Sequences, FiniteSets, Bags, TLC

VARIABLES
    ranges,          \* LangPercent.ranges, the static script-range table
    text,            \* argument text of the getLangs call
    defLang,         \* argument defLang of the getLangs call
    tgtLang,         \* argument tgtLang of the getLangs call
    defLangPercent,  \* local defLangPercent of getLangs
    tgtLangPercent,  \* local tgtLangPercent of getLangs
    langs,           \* what the getLangs call produced
    firstLangs,      \* what the first getLangs call on these arguments produced
    calls,           \* number of getLangs calls made with these arguments
    otherCalls       \* number of getLangs calls made with other arguments

VARIABLES
    openai,            \* TRUE when this.openai was created (an API key was configured)
    activeTextEditor,  \* vscode.window.activeTextEditor
    selection,         \* editor.selection of every editor
    editor,            \* this.editor, assigned by getActiveEditor
    pending,           \* the remote completion requests awaiting their response
    step               \* the handler step just taken, with what it read and did

langVars == <<ranges, text, defLang, tgtLang, defLangPercent, tgtLangPercent,
              langs, firstLangs, calls, otherCalls>>
extVars == <<openai, activeTextEditor, selection, editor, pending, step>>
vars == <<langVars, extVars>>

----------------------------------------------------------------------------
(* Bounds *)

MaxLen == 4        \* longest text (in UTF-16 code units) given to getLangs
MaxCallLen == 1    \* longest text in the specification of repeated calls
MaxCalls == 3      \* number of getLangs calls in one behaviour of SpecCalls
MaxPending == 2    \* remote completion requests pending at once

----------------------------------------------------------------------------
(* UTF-16 code units used to build texts, one per class the table separates *)

UnitDigit == 49          \* 0x0031 "1": in no interval
UnitLatin == 97          \* 0x0061 "a": English
UnitHan == 20013         \* 0x4E2D: the interval 0x4E00..0x9FFF of the three CJK keys
UnitKana == 12354        \* 0x3042: Japanese only
UnitHigh == 55357        \* 0xD83D: a high (leading) surrogate
UnitLow == 56832         \* 0xDE00: a low (trailing) surrogate

Units == {UnitDigit, UnitLatin, UnitHan, UnitKana, UnitHigh, UnitLow}

isHighSurrogate(u) == u >= 55296 /\ u <= 56319
isLowSurrogate(u) == u >= 56320 /\ u <= 57343

SeqsUpTo(S, n) == UNION {[1..k -> S] : k \in 0..n}

Texts == SeqsUpTo(Units, MaxLen)
CallUnits == {UnitDigit, UnitLatin, UnitHan}
CallTexts == SeqsUpTo(CallUnits, MaxCallLen)

----------------------------------------------------------------------------
(* LangPercent.ranges *)

LangTraditional == "zh-Hant"
LangSimplified == "zh-Hans"
LangJapanese == "ja"
LangEnglish == "English"

RangesTable ==
    [l \in {LangTraditional, LangSimplified, LangJapanese, LangEnglish} |->
        CASE l = LangTraditional -> << <<13312, 19903>>, <<63744, 64255>>, <<19968, 40959>> >>
          [] l = LangSimplified  -> << <<19968, 40959>> >>
          [] l = LangJapanese    -> << <<12352, 12447>>, <<12448, 12543>>, <<19968, 40959>> >>
          [] l = LangEnglish     -> << <<65, 90>>, <<97, 122>> >>]

TableKeys == DOMAIN RangesTable
CJKKeys == {LangTraditional, LangSimplified, LangJapanese}

\* Property names every object literal inherits from Object.prototype: a
\* lookup ranges[lang] with one of them yields a function, not undefined.
InheritedKeys == {"constructor"}

\* identifiers given to getLangs: the four keys, a key in another case, and
\* an inherited property name
LangIds == TableKeys \cup {"english"} \cup InheritedKeys

\* this.ranges[lang] || []
\* isArray is FALSE when the lookup yields a truthy value that has no .some
rangesOrEmpty(lang) ==
    IF lang \in DOMAIN ranges THEN [isArray |-> TRUE, intervals |-> ranges[lang]]
    ELSE IF lang \in InheritedKeys THEN [isArray |-> FALSE, intervals |-> <<>>]
    ELSE [isArray |-> TRUE, intervals |-> <<>>]

\* ranges.some(([start, end]) => ucChar >= start && ucChar <= end)
inRange(ucChar, rs) ==
    \E i \in 1..Len(rs) : ucChar >= rs[i][1] /\ ucChar <= rs[i][2]

\* Array.from(text): the string iterator yields one element per code point;
\* a high surrogate followed by a low surrogate is one element of two units,
\* any other unit (a lone surrogate too) is an element of its own.
RECURSIVE ArrayFrom(_)
ArrayFrom(t) ==
    IF t = <<>> THEN <<>>
    ELSE IF Len(t) >= 2 /\ isHighSurrogate(t[1]) /\ isLowSurrogate(t[2])
         THEN << <<t[1], t[2]>> >> \o ArrayFrom(SubSeq(t, 3, Len(t)))
         ELSE << <<t[1]>> >> \o ArrayFrom(SubSeq(t, 2, Len(t)))

\* char.charCodeAt(0): the first UTF-16 code unit of the element
charCodeAt0(char) == char[1]

\* A percentage is the exact quotient num/den (den = 0 is NaN); the
\* floating-point (langChars / text.length) * 100 compares with 50 as the
\* exact quotient does for every length a string can have.
Percent(n, d) == [threw |-> FALSE, num |-> n, den |-> d]
Zero == Percent(0, 1)
Threw == [threw |-> TRUE, num |-> 0, den |-> 0]
NotComputed == [threw |-> FALSE, num |-> -1, den |-> 0]

isZero(p) == ~p.threw /\ p.den > 0 /\ p.num = 0
gt50(p) == ~p.threw /\ p.den > 0 /\ p.num > 50 * p.den

\* faulty variant of calcPercent: the guard text.length > 0 is missing
calcPercentNoGuard(t, lang) ==
    LET chars == ArrayFrom(t)
        r == rangesOrEmpty(lang)
        langChars == Cardinality({i \in 1..Len(chars) :
                                    inRange(charCodeAt0(chars[i]), r.intervals)})
    IN  IF chars # <<>> /\ ~r.isArray THEN Threw
        ELSE Percent(100 * langChars, Len(t))

\* LangPercent.calcPercent(text, lang)
\* The filter callback runs once per element of Array.from(text); it throws a
\* TypeError when ranges[lang] is not an array.
calcPercent(t, lang) ==
    LET chars == ArrayFrom(t)
        r == rangesOrEmpty(lang)
        langChars == Cardinality({i \in 1..Len(chars) :
                                    inRange(charCodeAt0(chars[i]), r.intervals)})
    IN  IF chars # <<>> /\ ~r.isArray THEN Threw
        ELSE IF Len(t) > 0 THEN Percent(100 * langChars, Len(t))
        ELSE Zero

NoLangs == [status |-> "none", defLang |-> "", tgtLang |-> ""]
ThrewLangs == [status |-> "threw", defLang |-> "", tgtLang |-> ""]
Returned(d, g) == [status |-> "returned", defLang |-> d, tgtLang |-> g]

\* faulty variant of getLangs: the threshold is >= 50
getLangsGe50(t, d, g) ==
    LET dp == calcPercent(t, d)
        tp == calcPercent(t, g)
    IN  IF dp.threw \/ tp.threw THEN ThrewLangs
        ELSE IF dp.den > 0 /\ dp.num >= 50 * dp.den THEN Returned(d, g)
        ELSE IF tp.den > 0 /\ tp.num >= 50 * tp.den THEN Returned(g, d)
        ELSE Returned(d, g)

\* faulty variant of getLangs: the target language is tested first
getLangsTgtFirst(t, d, g) ==
    LET dp == calcPercent(t, d)
        tp == calcPercent(t, g)
    IN  IF dp.threw \/ tp.threw THEN ThrewLangs
        ELSE IF gt50(tp) THEN Returned(g, d)
        ELSE Returned(d, g)

\* LangPercent.getLangs(text, defLang, tgtLang)
getLangs(t, d, g) ==
    LET dp == calcPercent(t, d)
        tp == calcPercent(t, g)
    IN  IF dp.threw \/ tp.threw THEN ThrewLangs
        ELSE IF gt50(dp) THEN Returned(d, g)
        ELSE IF gt50(tp) THEN Returned(g, d)
        ELSE Returned(d, g)

\* locals of getLangs at the point the call ends: tgtLangPercent is not
\* computed when the first calcPercent throws
defPercentOf(t, d) == calcPercent(t, d)
tgtPercentOf(t, d, g) == IF calcPercent(t, d).threw THEN NotComputed ELSE calcPercent(t, g)

\* faulty variant of rangesAfterCall: the lookup is written back,
\* this.ranges[lang] = this.ranges[lang] || []
rangesAfterCallWriteBack(rs, d, g) ==
    LET new == {l \in {d, g} : l \notin DOMAIN rs /\ l \notin InheritedKeys}
    IN  [l \in DOMAIN rs \cup new |-> IF l \in DOMAIN rs THEN rs[l] ELSE <<>>]

\* the table after a getLangs call: neither calcPercent nor inRange nor
\* getLangs assigns to this.ranges or to one of its arrays
rangesAfterCall(rs, d, g) == rs

----------------------------------------------------------------------------------------------------------------------------------------------
(* BetterGPTExtension *)

NoEditor == "undefined"
Editors == {"e1", "e2"}
Selections == {"s1", "s2"}

\* editor.document.getText(editor.selection) for the documents of the two
\* editors: Latin letters, an empty selection, one ideograph, mixed text
getText(e, sel) ==
    CASE e = "e1" /\ sel = "s1" -> <<UnitLatin, UnitLatin>>
      [] e = "e1" /\ sel = "s2" -> <<>>
      [] e = "e2" /\ sel = "s1" -> <<UnitHan>>
      [] OTHER                  -> <<UnitLatin, UnitHan, UnitHan>>

\* values of the settings bettergpt.language.default / language.target
Undefined == "undefined-setting"
ConfigValues == {Undefined, "", LangEnglish, LangTraditional, "constructor"}

falsy(v) == v = Undefined \/ v = ""

\* faulty variant of languageNotSet: both settings must be missing
languageNotSetBoth(d, g) == falsy(d) /\ falsy(g)

\* !defaultLanguage || !targetLanguage
languageNotSet(d, g) == falsy(d) \/ falsy(g)

\* faulty variant of noTextSelected: only a missing argument counts
noTextSelectedNever(t) == FALSE

\* !text in processCommand
noTextSelected(t) == t = <<>>

NoThread == <<>>

\* createCommentThread(editor, processedText): the thread is created on
\* editor.document.uri at editor.selection, read when the thread is created
createCommentThread(e) == <<e, selection[e]>>

\* what a handler step read and did
StepRecord(op) ==
    [op |-> op,                 \* "translate", "grammar", "response", "user", "init"
     command |-> "",            \* for a response: the command that sent the request
     cfgDefault |-> Undefined,  \* language.default read by the step
     cfgTarget |-> Undefined,   \* language.target read by the step
     calledGetLangs |-> FALSE,  \* LangPercent.getLangs was called
     langs |-> NoLangs,         \* what it returned
     requested |-> FALSE,       \* chat.completions.create was called
     doc |-> NoEditor,          \* document whose text went into the request
     range |-> "",              \* selection whose text went into the request
     responded |-> "",          \* "ok", "rejected" or "malformed" response
     copied |-> FALSE,          \* clipboard.writeText was called
     thread |-> NoThread,       \* <<document, range>> of the comment thread created
     errors |-> 0,              \* number of logError calls
     threw |-> FALSE]           \* the handler's promise was rejected

Request(kind, e, sel) == [kind |-> kind, doc |-> e, range |-> sel]

\* processCommand(promptMessage, text) up to the await of the remote request.
\* Without a client this.openai.chat throws inside processText's try: both
\* catch blocks log and the command ends.
ProcessCommand(b, e, txt) ==
    IF noTextSelected(txt)
    THEN /\ step' = [b EXCEPT !.errors = b.errors + 1]
         /\ UNCHANGED pending
    ELSE IF ~openai
    THEN /\ step' = [b EXCEPT !.errors = b.errors + 2]
         /\ UNCHANGED pending
    ELSE /\ BagCardinality(pending) < MaxPending
         /\ pending' = pending (+) SetToBag({Request(b.op, e, selection[e])})
         /\ step' = [b EXCEPT !.requested = TRUE, !.doc = e, !.range = selection[e]]

\* handleTranslateCommand, with the two settings it reads
HandleTranslateCommand(d, g) ==
    LET b == [StepRecord("translate") EXCEPT !.cfgDefault = d, !.cfgTarget = g]
        e == activeTextEditor
    IN  /\ editor' = activeTextEditor
        /\ IF e = NoEditor
           THEN /\ step' = [b EXCEPT !.errors = 1]
                /\ UNCHANGED pending
           ELSE IF languageNotSet(d, g)
           THEN /\ step' = [b EXCEPT !.errors = 1]
                /\ UNCHANGED pending
           ELSE LET txt == getText(e, selection[e])
                    l == getLangs(txt, d, g)
                IN  IF l.status = "threw"
                    THEN /\ step' = [b EXCEPT !.calledGetLangs = TRUE, !.threw = TRUE]
                         /\ UNCHANGED pending
                    ELSE ProcessCommand([b EXCEPT !.calledGetLangs = TRUE, !.langs = l],
                                        e, txt)
        /\ UNCHANGED <<openai, activeTextEditor, selection, langVars>>

\* handleGrammarCommand
HandleGrammarCommand ==
    LET b == StepRecord("grammar")
        e == activeTextEditor
    IN  /\ editor' = activeTextEditor
        /\ IF e = NoEditor
           THEN /\ step' = [b EXCEPT !.errors = 1]
                /\ UNCHANGED pending
           ELSE ProcessCommand(b, e, getText(e, selection[e]))
        /\ UNCHANGED <<openai, activeTextEditor, selection, langVars>>

\* the rest of processCommand once the request r has its response; how is
\* "ok", "rejected" (the promise of create() rejects) or "malformed" (no
\* choices[0] in the response); copy is the setting enableCopy
ResponseArrives(r, how, copy) ==
    LET b == [StepRecord("response") EXCEPT !.doc = r.doc, !.range = r.range,
                                            !.responded = how,
                                            !.command = r.kind]
    IN  /\ BagIn(r, pending)
        /\ pending' = pending (-) SetToBag({r})
        /\ IF how = "ok"
           THEN /\ editor' = activeTextEditor
                /\ step' = [b EXCEPT
                       !.copied = copy,
                       !.thread = IF activeTextEditor = NoEditor THEN NoThread
                                  ELSE createCommentThread(activeTextEditor),
                       !.errors = IF activeTextEditor = NoEditor THEN 1 ELSE 0]
           ELSE /\ step' = [b EXCEPT !.errors = 2]
                /\ UNCHANGED editor
        /\ UNCHANGED <<openai, activeTextEditor, selection, langVars>>

\* the user changes the selection of an editor
ChangeSelection(e, sel) ==
    /\ sel # selection[e]
    /\ selection' = [selection EXCEPT ![e] = sel]
    /\ step' = StepRecord("user")
    /\ UNCHANGED <<openai, activeTextEditor, editor, pending, langVars>>

\* the user focuses another editor, or none
ChangeActiveEditor(e) ==
    /\ e # activeTextEditor
    /\ activeTextEditor' = e
    /\ step' = StepRecord("user")
    /\ UNCHANGED <<openai, selection, editor, pending, langVars>>

\* after the constructor: initOpenAI created the client iff an API key is set
Init ==
    /\ openai \in BOOLEAN
    /\ activeTextEditor \in Editors \cup {NoEditor}
    /\ selection \in [Editors -> Selections]
    /\ editor = NoEditor
    /\ pending = EmptyBag
    /\ step = StepRecord("init")
    /\ ranges = RangesTable
    /\ text = <<>>
    /\ defLang = LangEnglish
    /\ tgtLang = LangEnglish
    /\ defLangPercent = NotComputed
    /\ tgtLangPercent = NotComputed
    /\ langs = NoLangs
    /\ firstLangs = NoLangs
    /\ calls = 0
    /\ otherCalls = 0

Next ==
    \/ \E d \in ConfigValues, g \in ConfigValues : HandleTranslateCommand(d, g)
    \/ HandleGrammarCommand
    \/ \E r \in BagToSet(pending), how \in {"ok", "rejected", "malformed"},
          copy \in BOOLEAN : ResponseArrives(r, how, copy)
    \/ \E e \in Editors, sel \in Selections : ChangeSelection(e, sel)
    \/ \E e \in Editors \cup {NoEditor} : ChangeActiveEditor(e)

Spec == Init /\ [][Next]_vars

\* the extension at rest, for the specifications of LangPercent alone
ExtIdle ==
    /\ openai = FALSE
    /\ activeTextEditor = NoEditor
    /\ selection = [e \in Editors |-> "s1"]
    /\ editor = NoEditor
    /\ pending = EmptyBag
    /\ step = StepRecord("init")

----------------------------------------------------------------------------
(* Specification SpecLang: one getLangs call on arguments drawn by Init *)

InitLang ==
    /\ ranges = RangesTable
    /\ text \in Texts
    /\ defLang \in LangIds
    /\ tgtLang \in LangIds
    /\ defLangPercent = NotComputed
    /\ tgtLangPercent = NotComputed
    /\ langs = NoLangs
    /\ firstLangs = NoLangs
    /\ calls = 0
    /\ otherCalls = 0
    /\ ExtIdle

\* the first call LangPercent.getLangs(text, defLang, tgtLang)
GetLangs ==
    /\ calls = 0
    /\ otherCalls < MaxCalls
    /\ defLangPercent' = defPercentOf(text, defLang)
    /\ tgtLangPercent' = tgtPercentOf(text, defLang, tgtLang)
    /\ langs' = getLangs(text, defLang, tgtLang)
    /\ firstLangs' = langs'
    /\ ranges' = rangesAfterCall(ranges, defLang, tgtLang)
    /\ calls' = 1
    /\ UNCHANGED <<text, defLang, tgtLang, otherCalls, extVars>>

NextLang == GetLangs

SpecLang == InitLang /\ [][NextLang]_vars

----------------------------------------------------------------------------
(* Specification SpecCalls: a sequence of getLangs calls; Init draws the   *)
(* arguments whose results are compared, the other calls draw their own.   *)

InitCalls ==
    /\ ranges = RangesTable
    /\ text \in CallTexts
    /\ defLang \in LangIds
    /\ tgtLang \in LangIds
    /\ defLangPercent = NotComputed
    /\ tgtLangPercent = NotComputed
    /\ langs = NoLangs
    /\ firstLangs = NoLangs
    /\ calls = 0
    /\ otherCalls = 0
    /\ ExtIdle

\* a later call LangPercent.getLangs(text, defLang, tgtLang), same arguments
GetLangsAgain ==
    /\ calls > 0
    /\ calls + otherCalls < MaxCalls
    /\ defLangPercent' = defPercentOf(text, defLang)
    /\ tgtLangPercent' = tgtPercentOf(text, defLang, tgtLang)
    /\ langs' = getLangs(text, defLang, tgtLang)
    /\ ranges' = rangesAfterCall(ranges, defLang, tgtLang)
    /\ calls' = calls + 1
    /\ UNCHANGED <<text, defLang, tgtLang, firstLangs, otherCalls, extVars>>

\* a call LangPercent.getLangs(t, d, g) with other arguments; its result
\* goes to its own caller
GetLangsOther(t, d, g) ==
    /\ <<t, d, g>> # <<text, defLang, tgtLang>>
    /\ calls + otherCalls < MaxCalls
    /\ getLangs(t, d, g).status \in {"returned", "threw"}
    /\ ranges' = rangesAfterCall(ranges, d, g)
    /\ otherCalls' = otherCalls + 1
    /\ UNCHANGED <<text, defLang, tgtLang, defLangPercent, tgtLangPercent,
                   langs, firstLangs, calls, extVars>>

NextCalls ==
    \/ GetLangs
    \/ GetLangsAgain
    \/ \E t \in CallTexts, d \in LangIds, g \in LangIds : GetLangsOther(t, d, g)

SpecCalls == InitCalls /\ [][NextCalls]_vars

----------------------------------------------------------------------------
(* Claims about LangPercent *)

\* the comparison "percent > 50" on a percentage getLangs holds in a local
over50(p) == p.den > 0 /\ p.num > 50 * p.den
exactly50(p) == p.den > 0 /\ p.num = 50 * p.den

\* C1: for every text and every (default, target) pair of table keys,
\* getLangs returns (default, target) if defaultPercent > 50, otherwise
\* (target, default) if targetPercent > 50, otherwise (default, target);
\* exactly 50 triggers neither of the first two branches, and the result is
\* one of the two orientations of the input pair.
C1_ThreeBranchRule ==
    (calls > 0 /\ defLang \in TableKeys /\ tgtLang \in TableKeys) =>
        /\ over50(defLangPercent) => langs = Returned(defLang, tgtLang)
        /\ (~over50(defLangPercent) /\ over50(tgtLangPercent))
              => langs = Returned(tgtLang, defLang)
        /\ (~over50(defLangPercent) /\ ~over50(tgtLangPercent))
              => langs = Returned(defLang, tgtLang)
        /\ (exactly50(tgtLangPercent) /\ ~over50(defLangPercent))
              => langs = Returned(defLang, tgtLang)
        /\ langs \in {Returned(defLang, tgtLang), Returned(tgtLang, defLang)}

\* a call where the target scores exactly 50 and the default does not exceed
\* 50: the direction is not swapped
C1_Witness ==
    /\ calls > 0 /\ defLang \in TableKeys /\ tgtLang \in TableKeys
    /\ defLang # tgtLang
    /\ exactly50(tgtLangPercent) /\ ~over50(defLangPercent)
    /\ langs = Returned(defLang, tgtLang)

\* the code points of a text: a surrogate pair is one code point
codePointOf(char) ==
    IF Len(char) = 2 THEN 65536 + (char[1] - 55296) * 1024 + (char[2] - 56320)
    ELSE char[1]

codePointCount(t) == Len(ArrayFrom(t))

codePointMatches(t, lang) ==
    LET chars == ArrayFrom(t)
    IN  Cardinality({i \in 1..Len(chars) :
                        inRange(codePointOf(chars[i]), RangesTable[lang])})

\* p = 100 * m / n as exact quotients (0 when n = 0)
isQuotient(p, m, n) ==
    IF n = 0 THEN isZero(p)
    ELSE ~p.threw /\ p.den > 0 /\ p.num * n = 100 * m * p.den

\* the three-branch rule on the code-point percentages
codePointLangs(t, d, g) ==
    IF 2 * codePointMatches(t, d) > codePointCount(t) THEN Returned(d, g)
    ELSE IF 2 * codePointMatches(t, g) > codePointCount(t) THEN Returned(g, d)
    ELSE Returned(d, g)

\* C2: calcPercent measures text by Unicode code point: percent(text, L) =
\* 100 * (code points inside an interval of L) / (code points of text), also
\* for text with characters outside the basic multilingual plane, and
\* getLangs swaps the direction accordingly.
C2_CodePointPercent ==
    (calls > 0 /\ defLang \in TableKeys /\ tgtLang \in TableKeys) =>
        /\ isQuotient(defLangPercent, codePointMatches(text, defLang),
                      codePointCount(text))
        /\ isQuotient(tgtLangPercent, codePointMatches(text, tgtLang),
                      codePointCount(text))
        /\ langs = codePointLangs(text, defLang, tgtLang)

\* C3: when a text scores above 50% for both the default and the target
\* language, two distinct CJK table keys, getLangs never swaps: it returns
\* (default, target).
C3_OverlapKeepsDefault ==
    (/\ calls > 0
     /\ defLang \in CJKKeys /\ tgtLang \in CJKKeys /\ defLang # tgtLang
     /\ over50(defLangPercent) /\ over50(tgtLangPercent))
        => langs = Returned(defLang, tgtLang)

C3_Witness ==
    /\ calls > 0
    /\ defLang = LangSimplified /\ tgtLang = LangTraditional
    /\ over50(defLangPercent) /\ over50(tgtLangPercent)
    /\ langs = Returned(defLang, tgtLang)

\* C4: for every identifier that is not one of the four table keys,
\* calcPercent returns 0 for every text and never raises; getLangs with an
\* unknown default and a known target swaps exactly when the target exceeds
\* 50%, and with both identifiers unknown returns (default, target).
C4_UnknownIsZero ==
    calls > 0 =>
        /\ langs.status = "returned"
        /\ defLang \notin TableKeys => isZero(defLangPercent)
        /\ tgtLang \notin TableKeys => isZero(tgtLangPercent)
        /\ (defLang \notin TableKeys /\ tgtLang \in TableKeys) =>
              langs = IF over50(tgtLangPercent) THEN Returned(tgtLang, defLang)
                      ELSE Returned(defLang, tgtLang)
        /\ (defLang \notin TableKeys /\ tgtLang \notin TableKeys) =>
              langs = Returned(defLang, tgtLang)

\* C5: for the empty text calcPercent returns 0 for every identifier (no
\* division by zero, no non-numeric result) and getLangs returns
\* (default, target) for every pair of identifiers.
C5_EmptyText ==
    (calls > 0 /\ text = <<>>) =>
        /\ isZero(defLangPercent)
        /\ isZero(tgtLangPercent)
        /\ langs = Returned(defLang, tgtLang)

C5_Witness ==
    /\ calls > 0 /\ text = <<>>
    /\ defLang \in InheritedKeys /\ tgtLang = LangEnglish
    /\ langs = Returned(defLang, tgtLang)

\* C6: for every text t and every identifier L, getLangs(t, L, L) returns
\* source = L and destination = L.
C6_SameLanguage ==
    (calls > 0 /\ defLang = tgtLang) => langs = Returned(defLang, defLang)

\* C7: after any sequence of earlier getLangs calls with arbitrary
\* arguments, a call with the same (text, default, target) gives the same
\* result, and the script-range table is left unchanged by every call.
C7_Deterministic ==
    /\ calls > 0 => langs = firstLangs
    /\ ranges = RangesTable

C7_Witness ==
    /\ calls >= 2 /\ otherCalls >= 1
    /\ langs.status = "returned" /\ langs.defLang = tgtLang /\ defLang # tgtLang
    /\ langs = firstLangs

----------------------------------------------------------------------------
(* Claims about BetterGPTExtension.  A handler step leaves the active      *)
(* editor and the selections as it found them, and a user step replaces    *)
(* the step record: where step names a handler, activeTextEditor and       *)
(* selection are what that handler read.                                    *)

selectedText ==
    IF activeTextEditor = NoEditor THEN <<>>
    ELSE getText(activeTextEditor, selection[activeTextEditor])

settingMissing(v) == v \in {Undefined, ""}

\* C8: in handleTranslateCommand, with no active editor, or with the default
\* or target language missing or empty, the command ends without calling
\* getLangs, without a remote request, without a clipboard write and without
\* a comment thread; in the missing-language case an error is reported.
C8_TranslateRejectsEarly ==
    (/\ step.op = "translate"
     /\ \/ activeTextEditor = NoEditor
        \/ settingMissing(step.cfgDefault)
        \/ settingMissing(step.cfgTarget))
        => /\ ~step.calledGetLangs
           /\ ~step.requested
           /\ ~step.copied
           /\ step.thread = NoThread
           /\ ~step.threw
           /\ activeTextEditor # NoEditor => step.errors >= 1

\* a translate command on selected text, with a client, whose target
\* language is the empty string
C8_Witness ==
    /\ step.op = "translate"
    /\ activeTextEditor # NoEditor /\ selectedText # <<>> /\ openai
    /\ step.cfgDefault = LangEnglish /\ step.cfgTarget = ""
    /\ step.errors = 1 /\ ~step.calledGetLangs /\ ~step.requested

\* a command step that reached processText: an editor is active, text is
\* selected, and for translate both settings are present and getLangs returned
reachedProcessText ==
    /\ step.op \in {"translate", "grammar"}
    /\ activeTextEditor # NoEditor
    /\ selectedText # <<>>
    /\ step.op = "translate" =>
          /\ ~settingMissing(step.cfgDefault) /\ ~settingMissing(step.cfgTarget)
          /\ step.langs.status = "returned"

\* C9: in processCommand a clipboard write and a comment thread happen only
\* after a remote request returned successfully; with empty selected text no
\* request is made; when the request fails, also for want of a client, an
\* error is reported, nothing is copied, no thread is created and the
\* exception does not propagate.
C9_OnlyAfterSuccess ==
    /\ (step.copied \/ step.thread # NoThread)
          => (step.op = "response" /\ step.responded = "ok")
    /\ (step.op \in {"translate", "grammar"} /\ activeTextEditor # NoEditor
        /\ selectedText = <<>>)
          => (~step.requested /\ ~step.threw)
    /\ ((step.op = "response" /\ step.responded # "ok") \/ (reachedProcessText /\ ~openai))
          => /\ step.errors >= 1
             /\ ~step.copied
             /\ step.thread = NoThread
             /\ ~step.threw
    /\ (reachedProcessText /\ openai) => step.requested

\* the response to a grammar request is a rejection while an editor is active
C9_Witness ==
    /\ step.op = "response" /\ step.command = "grammar"
    /\ step.responded = "rejected"
    /\ activeTextEditor # NoEditor
    /\ step.errors = 2 /\ ~step.copied /\ step.thread = NoThread

\* C10: the comment thread created for a translate or grammar command is
\* attached to the document and selection range whose text was sent in that
\* command's request, whatever the user did while the request was pending.
C10_ThreadWhereTextWasSent ==
    (step.op = "response" /\ step.thread # NoThread)
        => step.thread = <<step.doc, step.range>>

====
